---- MODULE Spec2Model ----
(***************************************************************************)
(* The TCA6424 driver (src/src/lib.rs) as a state machine.                 *)
(*                                                                         *)
(* The driver owns a bus handle and an address.  Every public operation    *)
(* resolves a register, then calls one or two of the four transport        *)
(* primitives (read_register, write_register, write_registers_ai,          *)
(* read_registers_ai); each primitive is exactly one bus transaction.      *)
(* The model has one "call" action per public operation and one "step"     *)
(* action per transport primitive; pc names the primitive the driver is    *)
(* about to call.  The I2C bus is modelled as the log of transactions the  *)
(* driver has issued, answered by a device that holds a register file.     *)
(***************************************************************************)
EXTENDS Integers, Sequences, FiniteSets, TLC

(***************************************************************************)
(* Bounds of the model.                                                    *)
(***************************************************************************)
\* Longest value slice handed to a batch write (one more than a port group).
MaxVals == 4
\* Longest caller buffer handed to a batch read.
MaxBuf == 4
\* Number of operations in a behaviour of SpecSeq.
MaxOps == 2
\* Number of device images a behaviour may start from.
NumImages == 32
\* Number of device images a behaviour of SpecEnv may start from.
NumImagesEnv == 4
\* Number of writes another bus master makes during an operation of SpecEnv.
MaxExt == 1
\* Number of device images a behaviour of SpecPair may start from.
NumImagesPair == 2

(***************************************************************************)
(* u8 arithmetic, as Rust computes it on u8 operands.                      *)
(***************************************************************************)
Byte == 0..255

Pow2(n) == IF n = 0 THEN 1 ELSE IF n = 1 THEN 2 ELSE IF n = 2 THEN 4
           ELSE IF n = 3 THEN 8 ELSE IF n = 4 THEN 16 ELSE IF n = 5 THEN 32
           ELSE IF n = 6 THEN 64 ELSE IF n = 7 THEN 128 ELSE 256

BitOf(x, i) == (x \div Pow2(i)) % 2

\* a | b
Or8(a, b) ==
    LET bit(i) == IF BitOf(a, i) = 1 \/ BitOf(b, i) = 1 THEN Pow2(i) ELSE 0
    IN  bit(0) + bit(1) + bit(2) + bit(3) + bit(4) + bit(5) + bit(6) + bit(7)

\* a & b
And8(a, b) ==
    LET bit(i) == IF BitOf(a, i) = 1 /\ BitOf(b, i) = 1 THEN Pow2(i) ELSE 0
    IN  bit(0) + bit(1) + bit(2) + bit(3) + bit(4) + bit(5) + bit(6) + bit(7)

\* !a
Not8(a) == 255 - a

\* a << n  (n < 8 in every use: the shift never overflows the width check)
Shl8(a, n) == (a * Pow2(n)) % 256

\* a >> n
Shr8(a, n) == a \div Pow2(n)

Min(a, b) == IF a < b THEN a ELSE b

(***************************************************************************)
(* registers.rs: enum Register, #[repr(u8)].                               *)
(***************************************************************************)
InputPort0 == 0
InputPort1 == 1
InputPort2 == 2
OutputPort0 == 4
OutputPort1 == 5
OutputPort2 == 6
PolarityInversionPort0 == 8
PolarityInversionPort1 == 9
PolarityInversionPort2 == 10
ConfigurationPort0 == 12
ConfigurationPort1 == 13
ConfigurationPort2 == 14
InterruptMaskPort0 == 16
InterruptMaskPort1 == 17
InterruptMaskPort2 == 18

Register == {InputPort0, InputPort1, InputPort2,
             OutputPort0, OutputPort1, OutputPort2,
             PolarityInversionPort0, PolarityInversionPort1, PolarityInversionPort2,
             ConfigurationPort0, ConfigurationPort1, ConfigurationPort2,
             InterruptMaskPort0, InterruptMaskPort1, InterruptMaskPort2}

\* The value a pin operation's `match port_index` yields in its `_` arm.
InvalidRegisterOrPin == <<"InvalidRegisterOrPin">>

(***************************************************************************)
(* data_types.rs: Pin, Port, PinDirection, PinState.                       *)
(***************************************************************************)
Pin == 0..23
Port == 0..2
PinDirection == {"Input", "Output"}
PinState == {"Low", "High"}

\* lib.rs: pub const DEFAULT_ADDRESS
DEFAULT_ADDRESS == 34


\* Addresses handed to new() in the model: the documented default and the
\* one of the crate-level example (0x74).
Addresses == {DEFAULT_ADDRESS, 116}

(***************************************************************************)
(* errors.rs: enum Error<I2cError>.  A result is Ok(v) or Err(e).          *)
(***************************************************************************)
\* The opaque errors the bus transport may report.
BusErrors == {"Nack", "ArbitrationLoss"}

Ok(v) == [tag |-> "Ok", val |-> v]
Err(e) == [tag |-> "Err", val |-> e]
\* Error::I2c(e)
I2c(e) == <<"I2c", e>>
\* No operation has returned yet.
Pending == [tag |-> "Pending", val |-> <<>>]
\* Ok(())
Unit == <<>>

(***************************************************************************)
(* The device: a register file the bus transactions act on.  The command   *)
(* byte carries the register address in bits 0-6 and the auto-increment    *)
(* flag in bit 7; with the flag set the address advances after each byte.  *)
(* What the device does once a transfer runs past the third register of a  *)
(* group is left open: it either rolls over inside the group ("wrap") or   *)
(* walks on through the address space ("linear").                          *)
(***************************************************************************)
Overrun == {"wrap", "linear"}

InputRegisters == {InputPort0, InputPort1, InputPort2}

\* The address the k-th byte (k = 0, 1, ...) of a transfer goes to.
DeviceAddr(cmd, k, ov) ==
    LET base == cmd % 128
    IN  IF cmd \div 128 = 0 THEN base
        ELSE IF ov = "wrap" THEN ((base \div 4) * 4) + (((base % 4) + k) % 3)
        ELSE base + k

\* The register file after a write frame <<cmd>> \o payload.
DeviceWrite(r, cmd, payload, ov) ==
    [a \in DOMAIN r |->
        LET ks == {k \in 1..Len(payload) : DeviceAddr(cmd, k - 1, ov) = a}
        IN  IF ks = {} \/ a \in InputRegisters THEN r[a]
            ELSE payload[CHOOSE k \in ks : \A j \in ks : j <= k]]

\* The n bytes the device answers to a write_read with write part <<cmd>>.
DeviceRead(r, cmd, n, ov) ==
    [k \in 1..n |->
        LET a == DeviceAddr(cmd, k - 1, ov)
        IN  IF a \in DOMAIN r THEN r[a] ELSE 255]

\* The register files the device may hold when the driver is constructed:
\* every register runs through every byte value as the seed does, and no two
\* registers hold the same byte.
DeviceImage(seed) == [a \in Register |-> (seed + (17 * a)) % 256]

\* The images a behaviour starts from (seeds 0x00, 0x33, 0x66, ...).
Seeds == {(i * 51) % 256 : i \in 0..(NumImages - 1)}

(***************************************************************************)
(* State.                                                                  *)
(***************************************************************************)
VARIABLES
    address,    \* Tca6424.address
    regs,       \* the device's register file
    pc,         \* the transport primitive the driver calls next, "idle" or "done"
    op,         \* the public operation in progress (or the last one) and its arguments
    register,   \* local: the register the operation resolved
    bit_index,  \* local: pin_index % 8
    value,      \* local: the byte read / modified / to be written
    buffer,     \* the caller's buffer of a batch read
    bus,        \* the transactions the operation has issued, in order, with their answers
    result,     \* what the operation returned
    nops,       \* operations called so far
    budget,     \* operations a behaviour may call
    regs0,      \* the register file as it was when the operation was called
    prev,       \* the operation called before this one, its transactions and its result
    ext,        \* the writes another bus master has made to the device, in order
    caller      \* the calling program: its script, the address and the device it started
                \* with, and where it dropped the operation if it did

vars == <<address, regs, pc, op, register, bit_index, value, buffer, bus, result,
          nops, budget, regs0, prev, ext, caller>>

NoOp == [fn |-> "none", pin |-> -1, port |-> -1, arg |-> <<>>, values |-> <<>>]

\* A slip: the constructor probes the device with a read of register 0.
new_probes(a) ==
    /\ address = a
    /\ pc = "idle"
    /\ op = NoOp
    /\ register = -1
    /\ bit_index = -1
    /\ value = -1
    /\ buffer = <<>>
    /\ bus = <<[kind |-> "write_read", address |-> a, bytes |-> <<0>>, rdlen |-> 1,
                read |-> <<0>>, outcome |-> "Ok"]>>
    /\ result = Ok(Unit)
    /\ nops = 0
    /\ prev = [op |-> NoOp, bus |-> <<>>, result |-> Ok(Unit)]
    /\ ext = <<>>

\* Tca6424::new(i2c, address): stores the handle and the address, issues nothing.
new(a) ==
    /\ address = a
    /\ pc = "idle"
    /\ op = NoOp
    /\ register = -1
    /\ bit_index = -1
    /\ value = -1
    /\ buffer = <<>>
    /\ bus = <<>>
    /\ result = Ok(Unit)
    /\ nops = 0
    /\ prev = [op |-> NoOp, bus |-> <<>>, result |-> Ok(Unit)]
    /\ ext = <<>>

\* One operation on a freshly constructed driver, against every device image.
Init ==
    /\ \E a \in Addresses : new(a)
    /\ \E seed \in Seeds : regs = DeviceImage(seed)
    /\ regs0 = regs
    /\ budget = 1
    /\ caller = [script |-> "readback", address |-> address, start |-> regs,
                 dropped |-> "no"]

\* One operation on a driver constructed with any address a u8 can hold.
InitNew ==
    /\ \E a \in Byte : new(a)
    /\ regs = DeviceImage(0)
    /\ regs0 = regs
    /\ budget = 1
    /\ caller = [script |-> "readback", address |-> address, start |-> regs,
                 dropped |-> "no"]

\* A caller that sets two pins one after the other, or writes up to three
\* consecutive ports one by one, on a driver at the default address.
InitPair ==
    /\ new(DEFAULT_ADDRESS)
    /\ \E seed \in {(i * 51) % 256 : i \in 0..(NumImagesPair - 1)} : regs = DeviceImage(seed)
    /\ regs0 = regs
    /\ budget = Cardinality(Port)
    /\ \E script \in {"pairs", "ports"} :
          caller = [script |-> script, address |-> address, start |-> regs,
                 dropped |-> "no"]

\* A sequence of MaxOps operations on a freshly constructed driver: any
\* operation first, each later one a follow-up of the one before it.
InitSeq ==
    /\ \E a \in Addresses : new(a)
    /\ \E seed \in Seeds : regs = DeviceImage(seed)
    /\ regs0 = regs
    /\ budget = MaxOps
    /\ caller = [script |-> "readback", address |-> address, start |-> regs,
                 dropped |-> "no"]

(***************************************************************************)
(* Transport adapter: the transaction each primitive issues.               *)
(***************************************************************************)
\* self.i2c.write(address, bytes)
I2cWrite(addr, bytes) ==
    [kind |-> "write", address |-> addr, bytes |-> bytes, rdlen |-> 0]

\* self.i2c.write_read(address, bytes, buffer of n bytes)
I2cWriteRead(addr, bytes, n) ==
    [kind |-> "write_read", address |-> addr, bytes |-> bytes, rdlen |-> n]

\* A slip: the auto-increment bit is set in a single-register write.
write_register_ai(reg, val) ==
    I2cWrite(address, <<Or8(reg, 128), val>>)

write_register(reg, val) ==
    LET command_byte == reg
        buf == <<command_byte, val>>
    IN  I2cWrite(address, buf)

\* A slip: the auto-increment bit is set in a single-register read.
read_register_ai(reg) ==
    LET command_byte == Or8(reg, 128)
    IN  I2cWriteRead(address, <<command_byte>>, 1)

\* A slip: two bytes are read where one register is asked for.
read_register_two_bytes(reg) ==
    LET command_byte == reg
    IN  I2cWriteRead(address, <<command_byte>>, 2)

read_register(reg) ==
    LET command_byte == reg
    IN  I2cWriteRead(address, <<command_byte>>, 1)

\* A slip: the frame goes to the default address, not to the stored one.
write_registers_ai_default(start_register, values) ==
    LET command_byte == Or8(start_register, 128)
        len == Min(Len(values), 3)
        buf == <<command_byte>> \o SubSeq(values, 1, len)
    IN  I2cWrite(DEFAULT_ADDRESS, buf)

\* A slip: the auto-increment bit is left out of the command byte.
write_registers_ai_noflag(start_register, values) ==
    LET command_byte == start_register
        len == Min(Len(values), 3)
        buf == <<command_byte>> \o SubSeq(values, 1, len)
    IN  I2cWrite(address, buf)

\* A slip: the slice is copied whole, without the limit of 3.
write_registers_ai_whole(start_register, values) ==
    LET command_byte == Or8(start_register, 128)
        buf == <<command_byte>> \o values
    IN  I2cWrite(address, buf)

write_registers_ai(start_register, values) ==
    LET command_byte == Or8(start_register, 128)
        len == Min(Len(values), 3)
        buf == <<command_byte>> \o SubSeq(values, 1, len)
    IN  I2cWrite(address, buf)

\* A slip: the read is limited to the 3 registers of a group.
read_registers_ai_capped(start_register, n) ==
    LET command_byte == Or8(start_register, 128)
    IN  I2cWriteRead(address, <<command_byte>>, Min(n, 3))

read_registers_ai(start_register, n) ==
    LET command_byte == Or8(start_register, 128)
    IN  I2cWriteRead(address, <<command_byte>>, n)

\* A log entry: the transaction, the bytes read, and the transport's verdict.
Logged(t, read, outcome) ==
    [kind |-> t.kind, address |-> t.address, bytes |-> t.bytes, rdlen |-> t.rdlen,
     read |-> read, outcome |-> outcome]


(***************************************************************************)
(* Pin/port operation layer: register resolution (the `match` of each      *)
(* operation) and the bit arithmetic of the pin operations.                *)
(***************************************************************************)
\* What the `_` arm of `match port_index` stands for in the model: no register.
NoRegister == 0 - 1

input_register(port_index) ==
    CASE port_index = 0 -> InputPort0
      [] port_index = 1 -> InputPort1
      [] port_index = 2 -> InputPort2
      [] OTHER -> NoRegister

\* A slip: the arms are copied from the Configuration match.
output_register_configuration(port_index) ==
    CASE port_index = 0 -> ConfigurationPort0
      [] port_index = 1 -> ConfigurationPort1
      [] port_index = 2 -> ConfigurationPort2
      [] OTHER -> NoRegister

output_register(port_index) ==
    CASE port_index = 0 -> OutputPort0
      [] port_index = 1 -> OutputPort1
      [] port_index = 2 -> OutputPort2
      [] OTHER -> NoRegister

polarity_register(port_index) ==
    CASE port_index = 0 -> PolarityInversionPort0
      [] port_index = 1 -> PolarityInversionPort1
      [] port_index = 2 -> PolarityInversionPort2
      [] OTHER -> NoRegister

\* A slip: the arm of port 2 is missing, so its pins fall to the `_` arm.
config_register_two_ports(port_index) ==
    CASE port_index = 0 -> ConfigurationPort0
      [] port_index = 1 -> ConfigurationPort1
      [] OTHER -> NoRegister

config_register(port_index) ==
    CASE port_index = 0 -> ConfigurationPort0
      [] port_index = 1 -> ConfigurationPort1
      [] port_index = 2 -> ConfigurationPort2
      [] OTHER -> NoRegister

\* A slip: the Interrupt Mask registers are taken one address too high.
mask_register_off_by_one(port_index) ==
    CASE port_index = 0 -> InterruptMaskPort1
      [] port_index = 1 -> InterruptMaskPort2
      [] port_index = 2 -> InterruptMaskPort2 + 1
      [] OTHER -> NoRegister

mask_register(port_index) ==
    CASE port_index = 0 -> InterruptMaskPort0
      [] port_index = 1 -> InterruptMaskPort1
      [] port_index = 2 -> InterruptMaskPort2
      [] OTHER -> NoRegister

\* A slip: the mask is assigned instead of or-ed / and-ed in.
set_pin_direction_value_assign(config_value, bit, direction) ==
    IF direction = "Input" THEN Shl8(1, bit) ELSE Not8(Shl8(1, bit))

\* set_pin_direction: config_value |= 1 << bit / config_value &= !(1 << bit)
set_pin_direction_value(config_value, bit, direction) ==
    IF direction = "Input"
    THEN Or8(config_value, Shl8(1, bit))
    ELSE And8(config_value, Not8(Shl8(1, bit)))

\* A slip: the mask is assigned, the byte read is thrown away.
set_pin_output_value_assign(output_value, bit, state) ==
    IF state = "High" THEN Shl8(1, bit) ELSE Not8(Shl8(1, bit))

\* set_pin_output
set_pin_output_value(output_value, bit, state) ==
    IF state = "High"
    THEN Or8(output_value, Shl8(1, bit))
    ELSE And8(output_value, Not8(Shl8(1, bit)))

\* A slip: the two branches are exchanged.
set_pin_polarity_inversion_value_swapped(polarity_value, bit, invert) ==
    IF invert
    THEN And8(polarity_value, Not8(Shl8(1, bit)))
    ELSE Or8(polarity_value, Shl8(1, bit))

\* set_pin_polarity_inversion
set_pin_polarity_inversion_value(polarity_value, bit, invert) ==
    IF invert
    THEN Or8(polarity_value, Shl8(1, bit))
    ELSE And8(polarity_value, Not8(Shl8(1, bit)))

\* A slip: masking a pin clears its bit and unmasking sets it.
set_pin_interrupt_mask_value_swapped(mask_value, bit, mask) ==
    IF mask
    THEN And8(mask_value, Not8(Shl8(1, bit)))
    ELSE Or8(mask_value, Shl8(1, bit))

\* set_pin_interrupt_mask
set_pin_interrupt_mask_value(mask_value, bit, mask) ==
    IF mask
    THEN Or8(mask_value, Shl8(1, bit))
    ELSE And8(mask_value, Not8(Shl8(1, bit)))

\* A slip: the sense of the Configuration bit is taken the intuitive way round.
get_pin_direction_result_swapped(config_value, bit) ==
    IF And8(Shr8(config_value, bit), 1) = 1 THEN "Output" ELSE "Input"

\* get_pin_direction: (config_value >> bit) & 1 == 1
get_pin_direction_result(config_value, bit) ==
    IF And8(Shr8(config_value, bit), 1) = 1 THEN "Input" ELSE "Output"

\* A slip: the bits are counted from the top of the byte.
get_pin_output_state_result_mirrored(output_value, bit) ==
    IF And8(Shr8(output_value, 7 - bit), 1) = 1 THEN "High" ELSE "Low"

\* get_pin_output_state
get_pin_output_state_result(output_value, bit) ==
    IF And8(Shr8(output_value, bit), 1) = 1 THEN "High" ELSE "Low"

\* A slip: the shift is left out, so bit 0 is decoded for every pin.
get_pin_input_state_result_noshift(input_value, bit) ==
    IF And8(input_value, 1) = 1 THEN "High" ELSE "Low"

\* get_pin_input_state
get_pin_input_state_result(input_value, bit) ==
    IF And8(Shr8(input_value, bit), 1) = 1 THEN "High" ELSE "Low"

\* get_pin_polarity_inversion
get_pin_polarity_inversion_result(polarity_value, bit) ==
    And8(Shr8(polarity_value, bit), 1) = 1

\* get_pin_interrupt_mask
get_pin_interrupt_mask_result(mask_value, bit) ==
    And8(Shr8(mask_value, bit), 1) = 1

(***************************************************************************)
(* Arguments the operations are called with.                               *)
(***************************************************************************)
\* Port masks handed to set_port_* and set_initial_output_state (0x55, 0xAA).
Masks == {85, 170}

\* The i-th byte of value slice pattern k: 0x11, 0x22, 0x33, ... and
\* 0xAA, 0x55, 0x00, 0xAB, ...; the bytes of one slice differ from one another.
SliceByte(k, i) == IF k = 0 THEN (17 * i) % 256 ELSE (170 + (171 * (i - 1))) % 256

\* The value slices handed to set_ports_*_ai: every length 0..MaxVals.
Slices == {[i \in 1..n |-> SliceByte(k, i)] : k \in 0..1, n \in 0..MaxVals}

\* The caller buffers handed to get_ports_*_ai: zeroed, every length 0..MaxBuf.
Buffers == {[i \in 1..n |-> 0] : n \in 0..MaxBuf}

(***************************************************************************)
(* Calls: one action per public operation.  A call resolves the register   *)
(* and sets the locals; the transactions follow as steps.                  *)
(***************************************************************************)
PinOp(fn, pin, arg) == [fn |-> fn, pin |-> pin, port |-> -1, arg |-> arg, values |-> <<>>]
PortOp(fn, port, arg, values) ==
    [fn |-> fn, pin |-> -1, port |-> port, arg |-> arg, values |-> values]

\* Byte b with bit i made v, as a caller computes it from a byte it has read.
Patched(b, i, v) == IF v = 1 THEN Or8(b, Pow2(i)) ELSE And8(b, 255 - Pow2(i))

\* The pin getter and the port setter of the register a port getter reads.
PinGetterOf(fn) ==
    CASE fn = "get_port_direction" -> "get_pin_direction"
      [] fn = "get_port_output_state" -> "get_pin_output_state"
      [] fn = "get_port_input_state" -> "get_pin_input_state"
      [] fn = "get_port_polarity_inversion" -> "get_pin_polarity_inversion"
      [] OTHER -> "get_pin_interrupt_mask"

PortSetterOf(fn) ==
    CASE fn = "get_port_direction" -> "set_port_direction"
      [] fn = "get_port_output_state" -> "set_port_output"
      [] fn = "get_port_polarity_inversion" -> "set_port_polarity_inversion"
      [] OTHER -> "set_port_interrupt_mask"

\* Script "readback": after a port getter called first that succeeded, the
\* caller reads a pin of that port, or writes the byte back with one bit of it
\* changed.
AfterGetPort(o) ==
    IF result.tag # "Ok" \/ nops # 1 THEN {}
    ELSE {PinOp(PinGetterOf(o.fn), (8 * o.port) + i, <<>>) : i \in 0..7}
         \cup (IF o.fn = "get_port_input_state" THEN {}
               ELSE {PortOp(PortSetterOf(o.fn), o.port, Patched(result.val, i, v), <<>>) :
                        i \in 0..7, v \in 0..1})

\* Script "pairs": after a pin setter that succeeded, any pin setter on
\* another pin.
AfterSetPin(o) ==
    IF result.tag # "Ok" \/ nops # 1 THEN {}
    ELSE LET others == Pin \ {o.pin}
         IN  {PinOp("set_pin_direction", p, d) : p \in others, d \in PinDirection}
             \cup {PinOp("set_pin_output", p, s) : p \in others, s \in PinState}
             \cup {PinOp("set_pin_polarity_inversion", p, b) : p \in others, b \in BOOLEAN}
             \cup {PinOp("set_pin_interrupt_mask", p, b) : p \in others, b \in BOOLEAN}

\* Script "ports": the bytes 0xAA, 0x55, 0x00 written to consecutive ports one
\* by one, each after the one before it succeeded.
AfterSetPort(o) ==
    IF result.tag = "Ok" /\ o.port < 2 /\ o.arg = SliceByte(1, nops)
    THEN {PortOp(o.fn, o.port + 1, SliceByte(1, nops + 1), <<>>)}
    ELSE {}

\* The operations a caller issues right after operation o.  Script
\* "readback": the getter of the pin a pin setter has just written; after a
\* port setter, the same call once more or the getter of the port just written.
FollowUps(o) ==
    IF caller.script = "pairs"
    THEN (IF o.fn \in {"set_pin_direction", "set_pin_output", "set_pin_polarity_inversion",
                       "set_pin_interrupt_mask"} THEN AfterSetPin(o) ELSE {})
    ELSE IF caller.script = "ports"
    THEN (IF o.fn \in {"set_port_direction", "set_port_output", "set_port_polarity_inversion",
                       "set_port_interrupt_mask"} THEN AfterSetPort(o) ELSE {})
    ELSE
    CASE o.fn = "set_pin_direction" -> {PinOp("get_pin_direction", o.pin, <<>>)}
      [] o.fn = "set_pin_output" -> {PinOp("get_pin_output_state", o.pin, <<>>)}
      [] o.fn = "set_pin_polarity_inversion" ->
            {PinOp("get_pin_polarity_inversion", o.pin, <<>>)}
      [] o.fn = "set_pin_interrupt_mask" -> {PinOp("get_pin_interrupt_mask", o.pin, <<>>)}
      [] o.fn = "set_port_direction" ->
            {o, PortOp("get_port_direction", o.port, <<>>, <<>>)}
      [] o.fn = "set_port_output" ->
            {o, PortOp("get_port_output_state", o.port, <<>>, <<>>)}
      [] o.fn = "set_port_polarity_inversion" ->
            {o, PortOp("get_port_polarity_inversion", o.port, <<>>, <<>>)}
      [] o.fn = "set_port_interrupt_mask" ->
            {o, PortOp("get_port_interrupt_mask", o.port, <<>>, <<>>)}
      [] o.fn \in {"get_port_direction", "get_port_output_state", "get_port_input_state",
                   "get_port_polarity_inversion", "get_port_interrupt_mask"} ->
            AfterGetPort(o)
      [] OTHER -> {}

\* The bytes a caller hands to port setter fn: any port mask in a first call,
\* the bytes of its script afterwards.
PortMasks(fn) ==
    IF nops = 0 THEN Masks ELSE {o.arg : o \in {x \in FollowUps(op) : x.fn = fn}}

\* An operation is called when the driver is not inside one.
CanCall(fn) ==
    /\ pc \in {"idle", "done"}
    /\ nops < budget
    /\ IF nops = 0 THEN TRUE ELSE {o \in FollowUps(op) : o.fn = fn} # {}

Call(o, reg, bit, first, val, buf) ==
    /\ CanCall(o.fn)
    /\ IF nops = 0 THEN TRUE ELSE o \in FollowUps(op)
    /\ prev' = [op |-> op, bus |-> bus, result |-> result]
    /\ op' = o
    /\ nops' = nops + 1
    /\ bus' = <<>>
    /\ regs0' = regs
    /\ buffer' = buf
    /\ bit_index' = bit
    /\ value' = val
    /\ register' = reg
    /\ IF reg = NoRegister
       THEN pc' = "done" /\ result' = Err(InvalidRegisterOrPin)
       ELSE pc' = first /\ result' = Pending
    /\ UNCHANGED <<address, regs, budget, ext, caller>>

set_pin_direction(pin, direction) ==
    LET pin_index == pin
        port_index == pin_index \div 8
    IN  Call(PinOp("set_pin_direction", pin, direction), config_register(port_index), pin_index % 8,
             "read_register", -1, <<>>)

set_pin_output(pin, state) ==
    LET pin_index == pin
        port_index == pin_index \div 8
    IN  Call(PinOp("set_pin_output", pin, state), output_register(port_index), pin_index % 8,
             "read_register", -1, <<>>)

set_pin_polarity_inversion(pin, invert) ==
    LET pin_index == pin
        port_index == pin_index \div 8
    IN  Call(PinOp("set_pin_polarity_inversion", pin, invert), polarity_register(port_index), pin_index % 8,
             "read_register", -1, <<>>)

set_pin_interrupt_mask(pin, mask) ==
    LET pin_index == pin
        port_index == pin_index \div 8
    IN  Call(PinOp("set_pin_interrupt_mask", pin, mask), mask_register(port_index), pin_index % 8,
             "read_register", -1, <<>>)

get_pin_direction(pin) ==
    LET pin_index == pin
        port_index == pin_index \div 8
    IN  Call(PinOp("get_pin_direction", pin, <<>>), config_register(port_index), pin_index % 8,
             "read_register", -1, <<>>)

get_pin_output_state(pin) ==
    LET pin_index == pin
        port_index == pin_index \div 8
    IN  Call(PinOp("get_pin_output_state", pin, <<>>), output_register(port_index), pin_index % 8,
             "read_register", -1, <<>>)

get_pin_input_state(pin) ==
    LET pin_index == pin
        port_index == pin_index \div 8
    IN  Call(PinOp("get_pin_input_state", pin, <<>>), input_register(port_index), pin_index % 8,
             "read_register", -1, <<>>)

get_pin_polarity_inversion(pin) ==
    LET pin_index == pin
        port_index == pin_index \div 8
    IN  Call(PinOp("get_pin_polarity_inversion", pin, <<>>), polarity_register(port_index), pin_index % 8,
             "read_register", -1, <<>>)

get_pin_interrupt_mask(pin) ==
    LET pin_index == pin
        port_index == pin_index \div 8
    IN  Call(PinOp("get_pin_interrupt_mask", pin, <<>>), mask_register(port_index), pin_index % 8,
             "read_register", -1, <<>>)

set_port_direction(port, mask) ==
    Call(PortOp("set_port_direction", port, mask, <<>>), config_register(port), -1,
         "write_register", mask, <<>>)

\* A slip: the Input register of the port is taken for its Output register.
set_port_output_input(port, mask) ==
    Call(PortOp("set_port_output", port, mask, <<>>), input_register(port), -1,
         "write_register", mask, <<>>)

set_port_output(port, mask) ==
    Call(PortOp("set_port_output", port, mask, <<>>), output_register(port), -1,
         "write_register", mask, <<>>)

\* A slip: the Configuration register is taken for the Polarity Inversion one.
set_port_polarity_inversion_config(port, mask) ==
    Call(PortOp("set_port_polarity_inversion", port, mask, <<>>), config_register(port), -1,
         "write_register", mask, <<>>)

set_port_polarity_inversion(port, mask) ==
    Call(PortOp("set_port_polarity_inversion", port, mask, <<>>), polarity_register(port), -1,
         "write_register", mask, <<>>)

\* A slip: the byte is written in the sense of an enable register.
set_port_interrupt_mask_inverted(port, mask) ==
    Call(PortOp("set_port_interrupt_mask", port, mask, <<>>), mask_register(port), -1,
         "write_register", Not8(mask), <<>>)

set_port_interrupt_mask(port, mask) ==
    Call(PortOp("set_port_interrupt_mask", port, mask, <<>>), mask_register(port), -1,
         "write_register", mask, <<>>)

get_port_direction(port) ==
    Call(PortOp("get_port_direction", port, <<>>, <<>>), config_register(port), -1,
         "read_register", -1, <<>>)

get_port_output_state(port) ==
    Call(PortOp("get_port_output_state", port, <<>>, <<>>), output_register(port), -1,
         "read_register", -1, <<>>)

get_port_input_state(port) ==
    Call(PortOp("get_port_input_state", port, <<>>, <<>>), input_register(port), -1,
         "read_register", -1, <<>>)

get_port_polarity_inversion(port) ==
    Call(PortOp("get_port_polarity_inversion", port, <<>>, <<>>), polarity_register(port), -1,
         "read_register", -1, <<>>)

get_port_interrupt_mask(port) ==
    Call(PortOp("get_port_interrupt_mask", port, <<>>, <<>>), mask_register(port), -1,
         "read_register", -1, <<>>)

\* A slip: the batch always starts at the Port0 register.
set_ports_direction_ai_port0(start_port, masks) ==
    Call(PortOp("set_ports_direction_ai", start_port, <<>>, masks), config_register(0), -1,
         "write_registers_ai", -1, <<>>)

set_ports_direction_ai(start_port, masks) ==
    Call(PortOp("set_ports_direction_ai", start_port, <<>>, masks), config_register(start_port), -1,
         "write_registers_ai", -1, <<>>)

set_ports_output_ai(start_port, masks) ==
    Call(PortOp("set_ports_output_ai", start_port, <<>>, masks), output_register(start_port), -1,
         "write_registers_ai", -1, <<>>)

set_ports_polarity_inversion_ai(start_port, masks) ==
    Call(PortOp("set_ports_polarity_inversion_ai", start_port, <<>>, masks), polarity_register(start_port), -1,
         "write_registers_ai", -1, <<>>)

set_ports_interrupt_mask_ai(start_port, masks) ==
    Call(PortOp("set_ports_interrupt_mask_ai", start_port, <<>>, masks), mask_register(start_port), -1,
         "write_registers_ai", -1, <<>>)

get_ports_direction_ai(start_port, buf) ==
    Call(PortOp("get_ports_direction_ai", start_port, Len(buf), <<>>), config_register(start_port), -1,
         "read_registers_ai", -1, buf)

get_ports_output_state_ai(start_port, buf) ==
    Call(PortOp("get_ports_output_state_ai", start_port, Len(buf), <<>>), output_register(start_port), -1,
         "read_registers_ai", -1, buf)

get_ports_input_state_ai(start_port, buf) ==
    Call(PortOp("get_ports_input_state_ai", start_port, Len(buf), <<>>), input_register(start_port), -1,
         "read_registers_ai", -1, buf)

get_ports_polarity_inversion_ai(start_port, buf) ==
    Call(PortOp("get_ports_polarity_inversion_ai", start_port, Len(buf), <<>>), polarity_register(start_port), -1,
         "read_registers_ai", -1, buf)

get_ports_interrupt_mask_ai(start_port, buf) ==
    Call(PortOp("get_ports_interrupt_mask_ai", start_port, Len(buf), <<>>), mask_register(start_port), -1,
         "read_registers_ai", -1, buf)

\* A slip: the three masks are written starting at the Port1 register.
set_initial_output_state_port1(port0_mask, port1_mask, port2_mask) ==
    LET masks == <<port0_mask, port1_mask, port2_mask>>
    IN  Call(PortOp("set_initial_output_state", -1, <<>>, masks), OutputPort1, -1,
             "write_registers_ai", -1, <<>>)

set_initial_output_state(port0_mask, port1_mask, port2_mask) ==
    LET masks == <<port0_mask, port1_mask, port2_mask>>
    IN  Call(PortOp("set_initial_output_state", -1, <<>>, masks), OutputPort0, -1,
             "write_registers_ai", -1, <<>>)

(***************************************************************************)
(* Steps: one action per transport primitive.  Each is one bus transaction *)
(* that the transport either carries out or fails.                         *)
(***************************************************************************)
Outcomes == {"Ok"} \cup BusErrors

\* A slip: the transport's result is dropped and success is returned.
Verdict_swallowed(outcome) == Ok(Unit)

Verdict(outcome) == IF outcome = "Ok" THEN Ok(Unit) ELSE Err(I2c(outcome))

\* What an operation does with the byte read_register returned.
AfterRead(v) ==
    CASE op.fn = "set_pin_direction" ->
            /\ value' = set_pin_direction_value(v, bit_index, op.arg)
            /\ pc' = "write_register" /\ UNCHANGED result
      [] op.fn = "set_pin_output" ->
            /\ value' = set_pin_output_value(v, bit_index, op.arg)
            /\ pc' = "write_register" /\ UNCHANGED result
      [] op.fn = "set_pin_polarity_inversion" ->
            /\ value' = set_pin_polarity_inversion_value(v, bit_index, op.arg)
            /\ pc' = "write_register" /\ UNCHANGED result
      [] op.fn = "set_pin_interrupt_mask" ->
            /\ value' = set_pin_interrupt_mask_value(v, bit_index, op.arg)
            /\ pc' = "write_register" /\ UNCHANGED result
      [] op.fn = "get_pin_direction" ->
            /\ result' = Ok(get_pin_direction_result(v, bit_index))
            /\ value' = v /\ pc' = "done"
      [] op.fn = "get_pin_output_state" ->
            /\ result' = Ok(get_pin_output_state_result(v, bit_index))
            /\ value' = v /\ pc' = "done"
      [] op.fn = "get_pin_input_state" ->
            /\ result' = Ok(get_pin_input_state_result(v, bit_index))
            /\ value' = v /\ pc' = "done"
      [] op.fn = "get_pin_polarity_inversion" ->
            /\ result' = Ok(get_pin_polarity_inversion_result(v, bit_index))
            /\ value' = v /\ pc' = "done"
      [] op.fn = "get_pin_interrupt_mask" ->
            /\ result' = Ok(get_pin_interrupt_mask_result(v, bit_index))
            /\ value' = v /\ pc' = "done"
      [] OTHER ->
            /\ result' = Ok(v)
            /\ value' = v /\ pc' = "done"

\* A slip: a failed read is taken as a byte of zeros and the operation goes on.
ReadRegister_goes_on ==
    /\ pc = "read_register"
    /\ LET t == read_register(register)
       IN  \E outcome \in Outcomes :
             IF outcome = "Ok"
             THEN LET read_buffer == DeviceRead(regs, t.bytes[1], t.rdlen, "wrap")
                  IN  /\ bus' = Append(bus, Logged(t, read_buffer, outcome))
                      /\ AfterRead(read_buffer[1])
             ELSE /\ bus' = Append(bus, Logged(t, <<>>, outcome))
                  /\ AfterRead(0)
    /\ UNCHANGED <<address, regs, op, register, bit_index, buffer, nops, budget, regs0, prev, ext, caller>>

ReadRegister ==
    /\ pc = "read_register"
    /\ LET t == read_register(register)
       IN  \E outcome \in Outcomes :
             IF outcome = "Ok"
             THEN LET read_buffer == DeviceRead(regs, t.bytes[1], t.rdlen, "wrap")
                  IN  /\ bus' = Append(bus, Logged(t, read_buffer, outcome))
                      /\ AfterRead(read_buffer[1])
             ELSE /\ bus' = Append(bus, Logged(t, <<>>, outcome))
                  /\ result' = Err(I2c(outcome))
                  /\ pc' = "done"
                  /\ UNCHANGED value
    /\ UNCHANGED <<address, regs, op, register, bit_index, buffer, nops, budget, regs0, prev, ext, caller>>

\* A failed write may or may not have reached the device.
\* A slip: a register cache; a write that repeats the last successful operation
\* is answered without a transaction.
WriteRegister_cached ==
    /\ pc = "write_register"
    /\ LET t == write_register(register, value)
       IN  IF prev.op = op /\ prev.result.tag = "Ok"
           THEN /\ result' = Ok(Unit)
                /\ pc' = "done"
                /\ UNCHANGED <<bus, regs>>
           ELSE \E outcome \in Outcomes, applied \in BOOLEAN :
                  /\ outcome = "Ok" => applied
                  /\ bus' = Append(bus, Logged(t, <<>>, outcome))
                  /\ regs' = IF applied
                             THEN DeviceWrite(regs, t.bytes[1], Tail(t.bytes), "wrap")
                             ELSE regs
                  /\ result' = Verdict(outcome)
                  /\ pc' = "done"
    /\ UNCHANGED <<address, op, register, bit_index, value, buffer, nops, budget, regs0, prev, ext, caller>>

WriteRegister ==
    /\ pc = "write_register"
    /\ LET t == write_register(register, value)
       IN  \E outcome \in Outcomes, applied \in BOOLEAN :
             /\ outcome = "Ok" => applied
             /\ bus' = Append(bus, Logged(t, <<>>, outcome))
             /\ regs' = IF applied
                        THEN DeviceWrite(regs, t.bytes[1], Tail(t.bytes), "wrap")
                        ELSE regs
             /\ result' = Verdict(outcome)
             /\ pc' = "done"
    /\ UNCHANGED <<address, op, register, bit_index, value, buffer, nops, budget, regs0, prev, ext, caller>>

\* A slip: an empty slice is taken as nothing to do.
WriteRegistersAi_skips_empty ==
    /\ pc = "write_registers_ai"
    /\ LET t == write_registers_ai(register, op.values)
       IN  IF op.values = <<>>
           THEN /\ result' = Ok(Unit)
                /\ pc' = "done"
                /\ UNCHANGED <<bus, regs>>
           ELSE \E outcome \in Outcomes, applied \in BOOLEAN, ov \in Overrun :
                  /\ outcome = "Ok" => applied
                  /\ bus' = Append(bus, Logged(t, <<>>, outcome))
                  /\ regs' = IF applied
                             THEN DeviceWrite(regs, t.bytes[1], Tail(t.bytes), ov)
                             ELSE regs
                  /\ result' = Verdict(outcome)
                  /\ pc' = "done"
    /\ UNCHANGED <<address, op, register, bit_index, value, buffer, nops, budget, regs0, prev, ext, caller>>

WriteRegistersAi ==
    /\ pc = "write_registers_ai"
    /\ LET t == write_registers_ai(register, op.values)
       IN  \E outcome \in Outcomes, applied \in BOOLEAN, ov \in Overrun :
             /\ outcome = "Ok" => applied
             /\ bus' = Append(bus, Logged(t, <<>>, outcome))
             /\ regs' = IF applied
                        THEN DeviceWrite(regs, t.bytes[1], Tail(t.bytes), ov)
                        ELSE regs
             /\ result' = Verdict(outcome)
             /\ pc' = "done"
    /\ UNCHANGED <<address, op, register, bit_index, value, buffer, nops, budget, regs0, prev, ext, caller>>

ReadRegistersAi ==
    /\ pc = "read_registers_ai"
    /\ LET t == read_registers_ai(register, Len(buffer))
       IN  \E outcome \in Outcomes, ov \in Overrun :
             IF outcome = "Ok"
             THEN LET read == DeviceRead(regs, t.bytes[1], t.rdlen, ov)
                  IN  /\ bus' = Append(bus, Logged(t, read, outcome))
                      /\ buffer' = read
                      /\ result' = Ok(Unit)
                      /\ pc' = "done"
             ELSE /\ bus' = Append(bus, Logged(t, <<>>, outcome))
                  /\ result' = Err(I2c(outcome))
                  /\ pc' = "done"
                  /\ UNCHANGED buffer
    /\ UNCHANGED <<address, regs, op, register, bit_index, value, nops, budget, regs0, prev, ext, caller>>

Call_set_pin_direction ==
    /\ CanCall("set_pin_direction")
    /\ \E pin \in Pin, direction \in PinDirection : set_pin_direction(pin, direction)

Call_set_pin_output ==
    /\ CanCall("set_pin_output")
    /\ \E pin \in Pin, state \in PinState : set_pin_output(pin, state)

Call_set_pin_polarity_inversion ==
    /\ CanCall("set_pin_polarity_inversion")
    /\ \E pin \in Pin, invert \in BOOLEAN : set_pin_polarity_inversion(pin, invert)

Call_set_pin_interrupt_mask ==
    /\ CanCall("set_pin_interrupt_mask")
    /\ \E pin \in Pin, mask \in BOOLEAN : set_pin_interrupt_mask(pin, mask)

Call_get_pin_direction ==
    /\ CanCall("get_pin_direction")
    /\ \E pin \in Pin : get_pin_direction(pin)

Call_get_pin_output_state ==
    /\ CanCall("get_pin_output_state")
    /\ \E pin \in Pin : get_pin_output_state(pin)

Call_get_pin_input_state ==
    /\ CanCall("get_pin_input_state")
    /\ \E pin \in Pin : get_pin_input_state(pin)

Call_get_pin_polarity_inversion ==
    /\ CanCall("get_pin_polarity_inversion")
    /\ \E pin \in Pin : get_pin_polarity_inversion(pin)

Call_get_pin_interrupt_mask ==
    /\ CanCall("get_pin_interrupt_mask")
    /\ \E pin \in Pin : get_pin_interrupt_mask(pin)

Call_set_port_direction ==
    /\ CanCall("set_port_direction")
    /\ \E port \in Port, mask \in PortMasks("set_port_direction") : set_port_direction(port, mask)

Call_set_port_output ==
    /\ CanCall("set_port_output")
    /\ \E port \in Port, mask \in PortMasks("set_port_output") : set_port_output(port, mask)

Call_set_port_polarity_inversion ==
    /\ CanCall("set_port_polarity_inversion")
    /\ \E port \in Port, mask \in PortMasks("set_port_polarity_inversion") : set_port_polarity_inversion(port, mask)

Call_set_port_interrupt_mask ==
    /\ CanCall("set_port_interrupt_mask")
    /\ \E port \in Port, mask \in PortMasks("set_port_interrupt_mask") : set_port_interrupt_mask(port, mask)

Call_get_port_direction ==
    /\ CanCall("get_port_direction")
    /\ \E port \in Port : get_port_direction(port)

Call_get_port_output_state ==
    /\ CanCall("get_port_output_state")
    /\ \E port \in Port : get_port_output_state(port)

Call_get_port_input_state ==
    /\ CanCall("get_port_input_state")
    /\ \E port \in Port : get_port_input_state(port)

Call_get_port_polarity_inversion ==
    /\ CanCall("get_port_polarity_inversion")
    /\ \E port \in Port : get_port_polarity_inversion(port)

Call_get_port_interrupt_mask ==
    /\ CanCall("get_port_interrupt_mask")
    /\ \E port \in Port : get_port_interrupt_mask(port)

Call_set_ports_direction_ai ==
    /\ CanCall("set_ports_direction_ai")
    /\ \E start_port \in Port, masks \in Slices : set_ports_direction_ai(start_port, masks)

Call_set_ports_output_ai ==
    /\ CanCall("set_ports_output_ai")
    /\ \E start_port \in Port, masks \in Slices : set_ports_output_ai(start_port, masks)

Call_set_ports_polarity_inversion_ai ==
    /\ CanCall("set_ports_polarity_inversion_ai")
    /\ \E start_port \in Port, masks \in Slices : set_ports_polarity_inversion_ai(start_port, masks)

Call_set_ports_interrupt_mask_ai ==
    /\ CanCall("set_ports_interrupt_mask_ai")
    /\ \E start_port \in Port, masks \in Slices : set_ports_interrupt_mask_ai(start_port, masks)

Call_get_ports_direction_ai ==
    /\ CanCall("get_ports_direction_ai")
    /\ \E start_port \in Port, buf \in Buffers : get_ports_direction_ai(start_port, buf)

Call_get_ports_output_state_ai ==
    /\ CanCall("get_ports_output_state_ai")
    /\ \E start_port \in Port, buf \in Buffers : get_ports_output_state_ai(start_port, buf)

Call_get_ports_input_state_ai ==
    /\ CanCall("get_ports_input_state_ai")
    /\ \E start_port \in Port, buf \in Buffers : get_ports_input_state_ai(start_port, buf)

Call_get_ports_polarity_inversion_ai ==
    /\ CanCall("get_ports_polarity_inversion_ai")
    /\ \E start_port \in Port, buf \in Buffers : get_ports_polarity_inversion_ai(start_port, buf)

Call_get_ports_interrupt_mask_ai ==
    /\ CanCall("get_ports_interrupt_mask_ai")
    /\ \E start_port \in Port, buf \in Buffers : get_ports_interrupt_mask_ai(start_port, buf)

Call_set_initial_output_state ==
    /\ CanCall("set_initial_output_state")
    /\ \E p0 \in Masks, p1 \in Masks, p2 \in Masks : set_initial_output_state(p0, p1, p2)

Next ==
    \/ Call_set_pin_direction
    \/ Call_set_pin_output
    \/ Call_set_pin_polarity_inversion
    \/ Call_set_pin_interrupt_mask
    \/ Call_get_pin_direction
    \/ Call_get_pin_output_state
    \/ Call_get_pin_input_state
    \/ Call_get_pin_polarity_inversion
    \/ Call_get_pin_interrupt_mask
    \/ Call_set_port_direction
    \/ Call_set_port_output
    \/ Call_set_port_polarity_inversion
    \/ Call_set_port_interrupt_mask
    \/ Call_get_port_direction
    \/ Call_get_port_output_state
    \/ Call_get_port_input_state
    \/ Call_get_port_polarity_inversion
    \/ Call_get_port_interrupt_mask
    \/ Call_set_ports_direction_ai
    \/ Call_set_ports_output_ai
    \/ Call_set_ports_polarity_inversion_ai
    \/ Call_set_ports_interrupt_mask_ai
    \/ Call_get_ports_direction_ai
    \/ Call_get_ports_output_state_ai
    \/ Call_get_ports_input_state_ai
    \/ Call_get_ports_polarity_inversion_ai
    \/ Call_get_ports_interrupt_mask_ai
    \/ Call_set_initial_output_state
    \/ ReadRegister
    \/ WriteRegister
    \/ WriteRegistersAi
    \/ ReadRegistersAi

(***************************************************************************)
(* The environment of a read-modify-write: another master on the same bus, *)
(* and the caller dropping the operation at one of its suspension points.  *)
(***************************************************************************)
\* One set_pin_K on a freshly constructed driver at the default address.
InitEnv ==
    /\ new(DEFAULT_ADDRESS)
    /\ \E seed \in {(i * 51) % 256 : i \in 0..(NumImagesEnv - 1)} : regs = DeviceImage(seed)
    /\ regs0 = regs
    /\ budget = 1
    /\ caller = [script |-> "readback", address |-> address, start |-> regs,
                 dropped |-> "no"]

\* Byte b with bit j inverted.
FlipBit(b, j) == IF BitOf(b, j) = 1 THEN b - Pow2(j) ELSE b + Pow2(j)

\* Another bus master inverts one bit of the register a set_pin_K works on,
\* before the driver's read or between its read and its write.
ExternalWrite ==
    /\ pc \in {"read_register", "write_register"}
    /\ op.fn \in {"set_pin_direction", "set_pin_output", "set_pin_polarity_inversion",
                  "set_pin_interrupt_mask"}
    /\ Len(ext) < MaxExt
    /\ \E j \in 0..7 :
          LET byte == FlipBit(regs[register], j)
          IN  /\ regs' = [regs EXCEPT ![register] = byte]
              /\ ext' = Append(ext, [at |-> pc, reg |-> register, bit |-> j, byte |-> byte])
    /\ UNCHANGED <<address, pc, op, register, bit_index, value, buffer, bus, result,
                   nops, budget, regs0, prev, caller>>

\* A slip: an operation dropped between the read and the write still sends
\* the write it has prepared.
Cancel_flushes ==
    /\ pc \in {"read_register", "write_register"}
    /\ op.fn \in {"set_pin_direction", "set_pin_output", "set_pin_polarity_inversion",
                  "set_pin_interrupt_mask"}
    /\ \E sent \in BOOLEAN :
          LET t == IF pc = "read_register"
                   THEN read_register(register)
                   ELSE write_register(register, value)
          IN  /\ bus' = IF sent \/ pc = "write_register"
                        THEN Append(bus, Logged(t, <<>>, "Cancelled"))
                        ELSE bus
              /\ regs' = IF pc = "write_register"
                         THEN DeviceWrite(regs, t.bytes[1], Tail(t.bytes), "wrap")
                         ELSE regs
              /\ caller' = [caller EXCEPT !.dropped =
                                IF pc = "write_register" /\ ~sent THEN "between" ELSE pc]
    /\ pc' = "cancelled"
    /\ UNCHANGED <<address, op, register, bit_index, value, buffer, result,
                   nops, budget, regs0, prev, ext>>

\* The caller drops a set_pin_K at one of its two `.await`s.  At the one of
\* read_register the read may or may not have gone out on the bus.  At the one
\* of write_register either the transport has put nothing out yet (the drop
\* falls between the read and the write), or the frame is on the bus and the
\* device has taken it.  Nothing of the operation runs after the drop.
Cancel ==
    /\ pc \in {"read_register", "write_register"}
    /\ op.fn \in {"set_pin_direction", "set_pin_output", "set_pin_polarity_inversion",
                  "set_pin_interrupt_mask"}
    /\ \E sent \in BOOLEAN :
          LET t == IF pc = "read_register"
                   THEN read_register(register)
                   ELSE write_register(register, value)
          IN  /\ bus' = IF sent THEN Append(bus, Logged(t, <<>>, "Cancelled")) ELSE bus
              /\ regs' = IF sent /\ pc = "write_register"
                         THEN DeviceWrite(regs, t.bytes[1], Tail(t.bytes), "wrap")
                         ELSE regs
              /\ caller' = [caller EXCEPT !.dropped =
                                IF pc = "write_register" /\ ~sent THEN "between" ELSE pc]
    /\ pc' = "cancelled"
    /\ UNCHANGED <<address, op, register, bit_index, value, buffer, result,
                   nops, budget, regs0, prev, ext>>

NextEnv ==
    \/ Call_set_pin_direction
    \/ Call_set_pin_output
    \/ Call_set_pin_polarity_inversion
    \/ Call_set_pin_interrupt_mask
    \/ ReadRegister
    \/ WriteRegister
    \/ ExternalWrite
    \/ Cancel

\* The operations called on a driver of any address: one or two for each
\* transport primitive.
NextNew ==
    \/ Call_set_pin_direction
    \/ Call_set_port_output
    \/ Call_get_port_input_state
    \/ Call_set_initial_output_state
    \/ Call_get_ports_input_state_ai
    \/ ReadRegister
    \/ WriteRegister
    \/ WriteRegistersAi
    \/ ReadRegistersAi

Spec == Init /\ [][Next]_vars

SpecSeq == InitSeq /\ [][Next]_vars

\* One set_pin_K in its environment.
SpecEnv == InitEnv /\ [][NextEnv]_vars

\* Construction with any address, and the first operation after it.
SpecNew == InitNew /\ [][NextNew]_vars

\* Two pin setters, or the ports of a group written one by one.
SpecPair == InitPair /\ [][Next]_vars


(***************************************************************************)
(* The register map and the bit senses as the specification states them,   *)
(* for use in the properties below.                                        *)
(***************************************************************************)
PinSetFns == {"set_pin_direction", "set_pin_output", "set_pin_polarity_inversion",
              "set_pin_interrupt_mask"}
PinGetFns == {"get_pin_direction", "get_pin_output_state", "get_pin_input_state",
              "get_pin_polarity_inversion", "get_pin_interrupt_mask"}
AiSetFns == {"set_ports_direction_ai", "set_ports_output_ai",
             "set_ports_polarity_inversion_ai", "set_ports_interrupt_mask_ai"}
AiGetFns == {"get_ports_direction_ai", "get_ports_output_state_ai",
             "get_ports_input_state_ai", "get_ports_polarity_inversion_ai",
             "get_ports_interrupt_mask_ai"}

\* First address of the register group an operation works on:
\* Input 0x00, Output 0x04, PolarityInversion 0x08, Configuration 0x0C,
\* InterruptMask 0x10.
GroupBase(fn) ==
    CASE fn \in {"set_pin_direction", "get_pin_direction", "set_port_direction",
                 "get_port_direction", "set_ports_direction_ai",
                 "get_ports_direction_ai"} -> 12
      [] fn \in {"set_pin_output", "get_pin_output_state", "set_port_output",
                 "get_port_output_state", "set_ports_output_ai",
                 "get_ports_output_state_ai", "set_initial_output_state"} -> 4
      [] fn \in {"get_pin_input_state", "get_port_input_state",
                 "get_ports_input_state_ai"} -> 0
      [] fn \in {"set_pin_polarity_inversion", "get_pin_polarity_inversion",
                 "set_port_polarity_inversion", "get_port_polarity_inversion",
                 "set_ports_polarity_inversion_ai",
                 "get_ports_polarity_inversion_ai"} -> 8
      [] OTHER -> 16

\* The port an operation addresses: pin / 8 for a pin operation.
PortOf(o) == IF o.pin >= 0 THEN o.pin \div 8 ELSE o.port

\* The register an operation addresses, by the register map.
TargetRegister(o) == GroupBase(o.fn) + PortOf(o)

\* The register bit that encodes the argument of a pin setter:
\* Input, High, inverted and masked are 1.
RequestedBit(o) ==
    CASE o.fn = "set_pin_direction" -> IF o.arg = "Input" THEN 1 ELSE 0
      [] o.fn = "set_pin_output" -> IF o.arg = "High" THEN 1 ELSE 0
      [] OTHER -> IF o.arg THEN 1 ELSE 0

PortSetFns == {"set_port_direction", "set_port_output", "set_port_polarity_inversion",
               "set_port_interrupt_mask"}
PortGetFns == {"get_port_direction", "get_port_output_state", "get_port_input_state",
               "get_port_polarity_inversion", "get_port_interrupt_mask"}

\* The transaction of a log entry, without the transport's answer.
Transaction(e) == [kind |-> e.kind, address |-> e.address, bytes |-> e.bytes, rdlen |-> e.rdlen]

\* Byte b with bit i replaced by v.
WithBit(b, i, v) == (b - (BitOf(b, i) * Pow2(i))) + (v * Pow2(i))

Returned == pc = "done"
Succeeded == pc = "done" /\ result.tag = "Ok"

(***************************************************************************)
(* C1.  set_pin_K writes back the byte it read with only bit pin % 8       *)
(* changed, that bit being the requested value; and on the device no       *)
(* register other than the target one differs from what it held when the   *)
(* operation was called.                                                   *)
(***************************************************************************)
C1_SetPinTouchesOneBit ==
    op.fn \in PinSetFns =>
      /\ Len(bus) = 2 =>
           LET b == bus[1].read[1]
               w == bus[2].bytes[2]
               i == op.pin % 8
           IN  /\ \A j \in (0..7) \ {i} : BitOf(w, j) = BitOf(b, j)
               /\ BitOf(w, i) = RequestedBit(op)
      /\ Returned =>
           \A a \in Register \ {TargetRegister(op)} : regs[a] = regs0[a]

\* The specification's example: the register holds 0xFF, set_pin_direction(P00,
\* Output) writes 0xFE.
C1_Witness ==
    /\ Succeeded
    /\ op.fn = "set_pin_direction" /\ op.pin = 0 /\ op.arg = "Output"
    /\ bus[1].read = <<255>>
    /\ bus[2].bytes[2] = 254
    /\ regs[ConfigurationPort0] = 254

(***************************************************************************)
(* C2.  A successful set_pin_K issues exactly two transactions: a          *)
(* write_read of one byte with write part <<reg>>, then a write of         *)
(* <<reg, new byte>>, reg being the kind's register of port pin / 8 with   *)
(* bit 7 clear; and no write is on the bus before the read has completed.  *)
(***************************************************************************)
C2_SetPinReadThenWrite ==
    op.fn \in PinSetFns =>
      LET reg == TargetRegister(op)
      IN  /\ Succeeded =>
                /\ Len(bus) = 2
                /\ bus[1].kind = "write_read"
                /\ bus[1].address = address
                /\ bus[1].bytes = <<reg>>
                /\ bus[1].rdlen = 1
                /\ bus[2].kind = "write"
                /\ bus[2].address = address
                /\ Len(bus[2].bytes) = 2
                /\ bus[2].bytes[1] = reg
                /\ bus[2].bytes[2] \in Byte
                /\ reg < 128
          /\ \A k \in 1..Len(bus) :
                bus[k].kind = "write" =>
                    k = 2 /\ bus[1].kind = "write_read" /\ bus[1].outcome = "Ok"

C2_Witness ==
    /\ Succeeded
    /\ op.fn = "set_pin_output" /\ op.pin = 8 /\ op.arg = "High"
    /\ Len(bus) = 2
    /\ bus[1].bytes = <<5>>
    /\ bus[2].bytes[1] = 5


(***************************************************************************)
(* C3.  set_pin_direction(p, d) followed by get_pin_direction(p) returns   *)
(* d, whatever the Configuration register held before.                     *)
(***************************************************************************)
C3_DirectionRoundTrip ==
    ( /\ Succeeded
      /\ op.fn = "get_pin_direction"
      /\ prev.op.fn = "set_pin_direction"
      /\ prev.op.pin = op.pin
      /\ prev.result.tag = "Ok" )
    => result.val = prev.op.arg

\* P14 was an input (seed 0x33: Configuration port 1 holds 0x10), is set to
\* Output and read back as Output.
C3_Witness ==
    /\ Succeeded
    /\ op.fn = "get_pin_direction" /\ op.pin = 12
    /\ prev.op.fn = "set_pin_direction" /\ prev.op.pin = 12
    /\ prev.op.arg = "Output" /\ prev.result.tag = "Ok"
    /\ result.val = "Output"
    /\ regs[ConfigurationPort1] = 0
    /\ nops = 2

(***************************************************************************)
(* C4.  set_pin_polarity_inversion(pin, v) leaves the Polarity Inversion   *)
(* register equal to its prior byte with only bit pin % 8 set (v = true)   *)
(* or cleared (v = false), and get_pin_polarity_inversion(pin) called      *)
(* next returns v.                                                         *)
(***************************************************************************)
C4_PolarityRoundTrip ==
    /\ ( Succeeded /\ op.fn = "set_pin_polarity_inversion" ) =>
          LET r == TargetRegister(op)
              i == op.pin % 8
          IN  /\ \A j \in (0..7) \ {i} : BitOf(regs[r], j) = BitOf(regs0[r], j)
              /\ BitOf(regs[r], i) = (IF op.arg THEN 1 ELSE 0)
    /\ ( /\ Succeeded
         /\ op.fn = "get_pin_polarity_inversion"
         /\ prev.op.fn = "set_pin_polarity_inversion"
         /\ prev.op.pin = op.pin
         /\ prev.result.tag = "Ok" )
       => result.val = prev.op.arg

C4_Witness ==
    /\ Succeeded
    /\ op.fn = "get_pin_polarity_inversion" /\ op.pin = 17
    /\ prev.op.fn = "set_pin_polarity_inversion" /\ prev.op.pin = 17
    /\ prev.op.arg = TRUE /\ prev.result.tag = "Ok"
    /\ result.val = TRUE
    /\ BitOf(regs[PolarityInversionPort2], 1) = 1
    /\ nops = 2


(***************************************************************************)
(* C5.  A single-pin getter reads the register of port pin / 8 of its kind *)
(* and decodes bit pin % 8 of the byte returned, and nothing else of it:   *)
(* Input iff 1 for the direction, High iff 1 for output and input state,   *)
(* true iff 1 for polarity inversion and interrupt mask.                   *)
(***************************************************************************)
DecodedBit(fn, bit) ==
    CASE fn = "get_pin_direction" -> IF bit = 1 THEN "Input" ELSE "Output"
      [] fn \in {"get_pin_output_state", "get_pin_input_state"} ->
            IF bit = 1 THEN "High" ELSE "Low"
      [] OTHER -> bit = 1

C5_GetPinDecodesItsBit ==
    ( Succeeded /\ op.fn \in PinGetFns ) =>
        /\ Len(bus) = 1
        /\ bus[1].bytes = <<TargetRegister(op)>>
        /\ result.val = DecodedBit(op.fn, BitOf(bus[1].read[1], op.pin % 8))

\* Bit 5 of the Input register of port 1 is 1 while bit 0 is 0.
C5_Witness ==
    /\ Succeeded
    /\ op.fn = "get_pin_input_state" /\ op.pin = 13
    /\ bus[1].bytes = <<1>>
    /\ BitOf(bus[1].read[1], 5) = 1
    /\ BitOf(bus[1].read[1], 0) = 0
    /\ result.val = "High"

(***************************************************************************)
(* C6.  set_ports_K_ai(s, values) with 1 to 3 values issues exactly one    *)
(* transaction, a write of <<(register of K at port s) | 0x80>> followed   *)
(* by the values in slice order, and no read.                              *)
(***************************************************************************)
C6_BatchWriteFrame ==
    ( Returned /\ op.fn \in AiSetFns /\ Len(op.values) \in 1..3 ) =>
        /\ Len(bus) = 1
        /\ bus[1].kind = "write"
        /\ bus[1].address = address
        /\ bus[1].bytes = <<TargetRegister(op) + 128>> \o op.values

\* The specification's example: set_ports_direction_ai(Port0, [0xAA, 0x55, ..]).
C6_Witness ==
    /\ Succeeded
    /\ op.fn = "set_ports_direction_ai" /\ op.port = 0
    /\ Len(op.values) = 3 /\ op.values[1] = 170 /\ op.values[2] = 85
    /\ bus[1].bytes = <<140, 170, 85, op.values[3]>>

(***************************************************************************)
(* C7.  get_ports_K_ai(s, buffer) issues exactly one write_read whose      *)
(* write part is <<(register of K at port s) | 0x80>> and whose read       *)
(* length is the buffer's length, whatever it is; on success the buffer    *)
(* holds the bytes returned, which for the ports of the group are the      *)
(* registers of ports s, s + 1, ... in order.                              *)
(***************************************************************************)
C7_BatchReadFillsBuffer ==
    ( Returned /\ op.fn \in AiGetFns ) =>
        /\ Len(bus) = 1
        /\ bus[1].kind = "write_read"
        /\ bus[1].address = address
        /\ bus[1].bytes = <<TargetRegister(op) + 128>>
        /\ bus[1].rdlen = op.arg
        /\ Len(buffer) = op.arg
        /\ result.tag = "Ok" =>
              /\ buffer = bus[1].read
              /\ \A i \in 1..Len(buffer) :
                    op.port + i - 1 <= 2 =>
                        buffer[i] = regs0[TargetRegister(op) + i - 1]

\* The specification's example: three Input registers from Port0.
C7_Witness ==
    /\ Succeeded
    /\ op.fn = "get_ports_input_state_ai" /\ op.port = 0 /\ op.arg = 3
    /\ bus[1].bytes = <<128>>
    /\ buffer = <<regs[InputPort0], regs[InputPort1], regs[InputPort2]>>
    /\ buffer[1] # 0

(***************************************************************************)
(* C8.  A batch write started at port s carries at most 3 - s payload      *)
(* bytes, so the device never auto-increments past the Port2 register of   *)
(* the group.                                                              *)
(***************************************************************************)
C8_BatchWriteStaysInGroup ==
    ( op.fn \in AiSetFns /\ Len(bus) >= 1 /\ bus[1].outcome = "Ok" ) =>
        Len(bus[1].bytes) - 1 <= 3 - op.port

(***************************************************************************)
(* C9.  Writing 2 values with set_ports_K_ai from Port1 sets the Port1 and *)
(* Port2 registers of K to values[0] and values[1] and leaves Port0 of K   *)
(* and every other register as it was.                                     *)
(***************************************************************************)
C9_BatchWriteFromPort1 ==
    ( Succeeded /\ op.fn \in AiSetFns /\ op.port = 1 /\ Len(op.values) = 2 ) =>
        LET base == GroupBase(op.fn)
        IN  regs = [regs0 EXCEPT ![base + 1] = op.values[1],
                                 ![base + 2] = op.values[2]]

C9_Witness ==
    /\ Succeeded
    /\ op.fn = "set_ports_direction_ai" /\ op.port = 1
    /\ op.values = <<17, 34>>
    /\ regs[ConfigurationPort1] = 17
    /\ regs[ConfigurationPort2] = 34
    /\ regs[ConfigurationPort0] = regs0[ConfigurationPort0]
    /\ regs[ConfigurationPort0] \notin {17, 34}

(***************************************************************************)
(* C10.  A batch write of L values carries exactly the first min(L, 3) of  *)
(* them; with L > 3 the rest is dropped, still in one transaction, and the *)
(* operation returns what the transport returned for it (success when the  *)
(* write succeeded).                                                       *)
(***************************************************************************)
C10_BatchWriteTruncates ==
    ( Returned /\ op.fn \in AiSetFns ) =>
        LET n == Min(Len(op.values), 3)
        IN  /\ Len(bus) = 1
            /\ Tail(bus[1].bytes) = SubSeq(op.values, 1, n)
            /\ result = Verdict(bus[1].outcome)

\* Four values handed in, three on the wire, success.
C10_Witness ==
    /\ Succeeded
    /\ op.fn = "set_ports_output_ai" /\ op.port = 0
    /\ Len(op.values) = 4
    /\ bus[1].bytes = <<132, 17, 34, 51>>
    /\ Len(bus) = 1

(***************************************************************************)
(* C11.  set_initial_output_state(p0, p1, p2) issues one transaction, the   *)
(* write of <<0x84, p0, p1, p2>>: the transaction write_registers_ai makes  *)
(* of OutputPort0 and <<p0, p1, p2>>, and the one set_ports_output_ai       *)
(* issues for Port0 and three values.                                      *)
(***************************************************************************)
C11_InitialOutputFrame ==
    /\ ( Returned /\ op.fn = "set_initial_output_state" ) =>
          /\ Len(bus) = 1
          /\ bus[1].kind = "write"
          /\ bus[1].address = address
          /\ bus[1].rdlen = 0
          /\ bus[1].bytes = <<132>> \o op.values
          /\ Len(op.values) = 3
    /\ ( Returned /\ op.fn = "set_ports_output_ai" /\ op.port = 0
           /\ Len(op.values) = 3 ) =>
          /\ Len(bus) = 1
          /\ bus[1].kind = "write"
          /\ bus[1].address = address
          /\ bus[1].rdlen = 0
          /\ bus[1].bytes = <<132>> \o op.values

C11_Witness ==
    /\ Succeeded
    /\ op.fn = "set_initial_output_state"
    /\ op.values = <<85, 170, 85>>
    /\ bus[1].bytes = <<132, 85, 170, 85>>
    /\ regs[OutputPort0] = 85 /\ regs[OutputPort1] = 170 /\ regs[OutputPort2] = 85

(***************************************************************************)
(* C12.  The driver keeps no cache.  set_port_K(port, v) called twice in a  *)
(* row issues two identical write transactions; and the k-th transaction   *)
(* of any operation is determined by the operation's arguments and the     *)
(* bytes the transport returned to it, whatever was called before.         *)
(***************************************************************************)
\* The k-th transaction of operation o, given the log b of its transactions
\* so far, by the register map.
ExpectedTransaction(o, k, b) ==
    LET reg == TargetRegister(o)
    IN  CASE o.fn \in PinSetFns /\ k = 1 -> I2cWriteRead(address, <<reg>>, 1)
          [] o.fn \in PinSetFns /\ k = 2 ->
                I2cWrite(address, <<reg, WithBit(b[1].read[1], o.pin % 8, RequestedBit(o))>>)
          [] o.fn \in PinGetFns \cup PortGetFns /\ k = 1 -> I2cWriteRead(address, <<reg>>, 1)
          [] o.fn \in PortSetFns /\ k = 1 -> I2cWrite(address, <<reg, o.arg>>)
          [] o.fn \in AiSetFns /\ k = 1 ->
                I2cWrite(address, <<reg + 128>> \o SubSeq(o.values, 1, Min(Len(o.values), 3)))
          [] o.fn \in AiGetFns /\ k = 1 -> I2cWriteRead(address, <<reg + 128>>, o.arg)
          [] o.fn = "set_initial_output_state" /\ k = 1 ->
                I2cWrite(address, <<132>> \o o.values)
          [] OTHER -> [kind |-> "none", address |-> address, bytes |-> <<>>, rdlen |-> 0]

C12_NoCache ==
    /\ \A k \in 1..Len(bus) : Transaction(bus[k]) = ExpectedTransaction(op, k, bus)
    /\ ( Returned /\ op.fn \in PortSetFns /\ prev.op = op ) =>
          /\ Len(bus) = 1
          /\ Len(prev.bus) = 1
          /\ Transaction(bus[1]) = Transaction(prev.bus[1])
          /\ bus[1].kind = "write"

\* The specification's example: set_port_output(Port1, 0x55) twice.
C12_Witness ==
    /\ Succeeded
    /\ nops = 2
    /\ op.fn = "set_port_output" /\ op.port = 1 /\ op.arg = 85
    /\ prev.op = op /\ prev.result.tag = "Ok"
    /\ prev.bus[1].bytes = <<5, 85>>
    /\ bus[1].bytes = <<5, 85>>
    /\ regs[OutputPort1] = 85

(***************************************************************************)
(* C13.  When a transaction of an operation fails with error e, the        *)
(* operation has returned Err(I2c(e)) with exactly that e, and the failed   *)
(* transaction is the last one the operation issued: it is not retried and *)
(* nothing follows it.                                                     *)
(***************************************************************************)
C13_TransportErrorPropagates ==
    \A k \in 1..Len(bus) :
        bus[k].outcome # "Ok" =>
            /\ k = Len(bus)
            /\ Returned
            /\ result.tag = "Err"
            /\ result.val = I2c(bus[k].outcome)
            /\ \A j \in 1..(k - 1) : Transaction(bus[j]) # Transaction(bus[k])

\* The write half of set_pin_output fails with a lost arbitration.
C13_Witness ==
    /\ Returned
    /\ op.fn = "set_pin_output"
    /\ Len(bus) = 2
    /\ bus[1].outcome = "Ok"
    /\ bus[2].kind = "write" /\ bus[2].outcome = "ArbitrationLoss"
    /\ result = Err(I2c("ArbitrationLoss"))

(***************************************************************************)
(* C14.  In set_pin_K, when the read half fails the operation has returned  *)
(* an error, no write is attempted and the device holds what it held; when *)
(* the read succeeds and the write half fails, the operation returns an    *)
(* error, whether or not the write reached the device.                     *)
(***************************************************************************)
C14_SetPinFailureAborts ==
    op.fn \in PinSetFns =>
        /\ ( Len(bus) >= 1 /\ bus[1].outcome # "Ok" ) =>
              /\ Len(bus) = 1
              /\ bus[1].kind = "write_read"
              /\ Returned
              /\ result.tag = "Err"
              /\ regs = regs0
        /\ ( Len(bus) = 2 /\ bus[1].outcome = "Ok" /\ bus[2].outcome # "Ok" ) =>
              /\ Returned
              /\ result.tag = "Err"
        /\ ( Returned /\ result.tag = "Ok" ) =>
              \A k \in 1..Len(bus) : bus[k].outcome = "Ok"

\* The read of set_pin_interrupt_mask is not acknowledged: one transaction,
\* an error, and the Interrupt Mask register as it was.
C14_Witness ==
    /\ Returned
    /\ op.fn = "set_pin_interrupt_mask" /\ op.pin = 9 /\ op.arg = TRUE
    /\ Len(bus) = 1
    /\ bus[1].kind = "write_read" /\ bus[1].outcome = "Nack"
    /\ result = Err(I2c("Nack"))
    /\ BitOf(regs[InterruptMaskPort1], 1) = 0
    /\ regs = regs0

(***************************************************************************)
(* C15.  For each of the 24 pins, every set_pin_* and get_pin_* resolves a  *)
(* register of port pin / 8, which is 0, 1 or 2, and goes to the bus; no   *)
(* operation returns InvalidRegisterOrPin.                                 *)
(***************************************************************************)
C15_InvalidRegisterOrPinUnreachable ==
    /\ result.tag = "Err" => result.val # InvalidRegisterOrPin
    /\ op.fn \in PinSetFns \cup PinGetFns =>
          /\ op.pin \div 8 \in {0, 1, 2}
          /\ register \in Register
          /\ register = TargetRegister(op)
          /\ bit_index = op.pin % 8
          /\ Returned => Len(bus) >= 1

\* The last pin, P27: port 2, bit 7.
C15_Witness ==
    /\ Succeeded
    /\ op.fn = "set_pin_direction" /\ op.pin = 23
    /\ register = ConfigurationPort2
    /\ bit_index = 7
    /\ Len(bus) = 2

(***************************************************************************)
(* C16.  No write transaction addresses an Input register: whatever has    *)
(* been called, the command byte of every write has its low 7 bits outside *)
(* 0x00..0x02, and every transaction on an Input register is a write_read. *)
(***************************************************************************)
C16_InputNeverWritten ==
    /\ \A k \in 1..Len(bus) :
          /\ bus[k].kind = "write" => (bus[k].bytes[1] % 128) \notin {0, 1, 2}
          /\ (bus[k].bytes[1] % 128) \in {0, 1, 2} =>
                bus[k].kind = "write_read" /\ Len(bus[k].bytes) = 1
    /\ \A k \in 1..Len(prev.bus) :
          prev.bus[k].kind = "write" => (prev.bus[k].bytes[1] % 128) \notin {0, 1, 2}

\* The Input register of port 2 is read.
C16_Witness ==
    /\ Succeeded
    /\ op.fn = "get_pin_input_state" /\ op.pin = 20
    /\ bus[1].kind = "write_read" /\ bus[1].bytes = <<2>>

(***************************************************************************)
(* C17.  set_pin_K is not atomic at the device.  Its write carries, for    *)
(* every bit but its own, the value its read returned: a change another    *)
(* master makes to such a bit between the read and the write is lost, and  *)
(* a change made before the read, with none in between, is preserved.      *)
(***************************************************************************)
\* The external writes to bit j made at point p of the operation.
ExtAt(p, j) == {k \in 1..Len(ext) : ext[k].at = p /\ ext[k].bit = j}

C17_LostUpdate ==
    ( Succeeded /\ op.fn \in PinSetFns ) =>
        LET r == TargetRegister(op)
            i == op.pin % 8
        IN  /\ regs[r] = bus[2].bytes[2]
            /\ \A j \in (0..7) \ {i} : BitOf(regs[r], j) = BitOf(bus[1].read[1], j)
            /\ \A k \in 1..Len(ext) :
                  LET j == ext[k].bit
                  IN  /\ ( j # i /\ ExtAt("write_register", j) = {k} ) =>
                            BitOf(regs[r], j) # BitOf(ext[k].byte, j)
                      /\ ( j # i /\ ExtAt("write_register", j) = {}
                             /\ \A m \in ExtAt("read_register", j) : m <= k ) =>
                            BitOf(regs[r], j) = BitOf(ext[k].byte, j)

\* The lost update: while set_pin_output(P03, High) is between its read and
\* its write, another master inverts bit 5 of Output port 0; the driver's write
\* puts bit 5 back.
C17_Witness ==
    /\ Succeeded
    /\ op.fn = "set_pin_output" /\ op.pin = 3 /\ op.arg = "High"
    /\ Len(ext) = 1
    /\ ext[1].at = "write_register" /\ ext[1].reg = OutputPort0 /\ ext[1].bit = 5
    /\ BitOf(regs[OutputPort0], 5) = BitOf(regs0[OutputPort0], 5)
    /\ BitOf(regs[OutputPort0], 5) # BitOf(ext[1].byte, 5)
    /\ BitOf(regs[OutputPort0], 3) = 1

(***************************************************************************)
(* C18.  A set_pin_K dropped at the suspension point of its read half, or   *)
(* between its read and its write, has issued no write transaction and      *)
(* never returns; the device holds what it held when the operation started  *)
(* (but for what another master wrote meanwhile).  Only a drop while the     *)
(* write itself is pending on the bus leaves a write in the log.            *)
(***************************************************************************)
C18_CancelLeavesRegister ==
    pc = "cancelled" =>
        /\ op.fn \in PinSetFns
        /\ result = Pending
        /\ caller.dropped \in {"read_register", "between", "write_register"}
        /\ caller.dropped \in {"read_register", "between"} =>
              /\ Len(bus) <= 1
              /\ \A k \in 1..Len(bus) : bus[k].kind = "write_read"
              /\ caller.dropped = "between" => ( Len(bus) = 1 /\ bus[1].outcome = "Ok" )
              /\ ext = <<>> => regs = regs0
              /\ \A a \in Register :
                    regs[a] = IF a = register /\ ext # <<>>
                              THEN ext[Len(ext)].byte
                              ELSE regs0[a]
        /\ caller.dropped = "write_register" =>
              /\ Len(bus) = 2
              /\ bus[2].kind = "write" /\ bus[2].outcome = "Cancelled"
              /\ bus[2].bytes = <<register, value>>
              /\ regs = [regs0 EXCEPT ![register] = value]

\* set_pin_direction(P00, Output) has read 0xFF and computed 0xFE when it is
\* dropped: the Configuration register still holds 0xFF.
C18_Witness ==
    /\ pc = "cancelled"
    /\ caller.dropped = "between"
    /\ op.fn = "set_pin_direction" /\ op.pin = 0 /\ op.arg = "Output"
    /\ Len(bus) = 1 /\ bus[1].outcome = "Ok" /\ bus[1].read = <<255>>
    /\ value = 254
    /\ ext = <<>>
    /\ regs[ConfigurationPort0] = 255

(***************************************************************************)
(* C19.  The crate-level example: on a driver built on address 0x74,       *)
(* set_pin_direction(P00, Output) issues write_read(0x74, [0x06]), answered *)
(* 0xFF, then write(0x74, [0x06, 0xFE]); set_pin_output(P00, High) issues   *)
(* write_read(0x74, [0x02]), answered 0x00, then write(0x74, [0x02, 0x01]); *)
(* and nothing else is issued.                                             *)
(***************************************************************************)
C19_CrateExample ==
    address = 116 =>
        /\ ( op = PinOp("set_pin_direction", 0, "Output") /\ Len(bus) >= 1 ) =>
              /\ Transaction(bus[1]) = I2cWriteRead(116, <<6>>, 1)
              /\ ( Succeeded /\ bus[1].read = <<255>> ) =>
                    /\ Len(bus) = 2
                    /\ Transaction(bus[2]) = I2cWrite(116, <<6, 254>>)
        /\ ( op = PinOp("set_pin_output", 0, "High") /\ Len(bus) >= 1 ) =>
              /\ Transaction(bus[1]) = I2cWriteRead(116, <<2>>, 1)
              /\ ( Succeeded /\ bus[1].read = <<0>> ) =>
                    /\ Len(bus) = 2
                    /\ Transaction(bus[2]) = I2cWrite(116, <<2, 1>>)

(***************************************************************************)
(* C20.  set_port_K(q, v) issues exactly one transaction, the write of     *)
(* <<register of K at q, v>> with bit 7 of the command byte clear, and no   *)
(* read; get_port_K(q) returns the byte the transport supplied as it is;   *)
(* so get_port_K(q) right after a successful set_port_K(q, v) returns v.   *)
(***************************************************************************)
\* The port getter that reads the register a port setter writes.
GetterOf(fn) ==
    CASE fn = "set_port_direction" -> "get_port_direction"
      [] fn = "set_port_output" -> "get_port_output_state"
      [] fn = "set_port_polarity_inversion" -> "get_port_polarity_inversion"
      [] fn = "set_port_interrupt_mask" -> "get_port_interrupt_mask"
      [] OTHER -> "none"

C20_PortWholeByte ==
    /\ ( Returned /\ op.fn \in PortSetFns ) =>
          /\ Len(bus) = 1
          /\ Transaction(bus[1]) = I2cWrite(address, <<TargetRegister(op), op.arg>>)
          /\ bus[1].bytes[1] < 128
          /\ result.tag = "Ok" => regs[TargetRegister(op)] = op.arg
    /\ ( Returned /\ op.fn \in PortGetFns ) =>
          /\ Len(bus) = 1
          /\ Transaction(bus[1]) = I2cWriteRead(address, <<TargetRegister(op)>>, 1)
          /\ result.tag = "Ok" => result.val = bus[1].read[1]
    /\ ( /\ Succeeded
         /\ prev.op.fn \in PortSetFns
         /\ op.fn = GetterOf(prev.op.fn)
         /\ op.port = prev.op.port
         /\ prev.result.tag = "Ok" )
       => result.val = prev.op.arg

\* 0xAA is written to the Polarity Inversion register of port 2 and read back.
C20_Witness ==
    /\ Succeeded
    /\ nops = 2
    /\ op.fn = "get_port_polarity_inversion" /\ op.port = 2
    /\ prev.op.fn = "set_port_polarity_inversion" /\ prev.op.port = 2
    /\ prev.op.arg = 170 /\ prev.result.tag = "Ok"
    /\ prev.bus[1].bytes = <<10, 170>>
    /\ bus[1].bytes = <<10>>
    /\ regs0[PolarityInversionPort2] = 170
    /\ result.val = 170

(***************************************************************************)
(* C21.  A single-register read is exactly one write_read: write part      *)
(* <<cmd>>, one byte read.  It is the first transaction of get_pin_K,      *)
(* get_port_K and set_pin_K, so no write carrying the register address     *)
(* comes before it; a get operation issues nothing else, never a write,    *)
(* and leaves every device register as it was.                             *)
(***************************************************************************)
C21_SingleRead ==
    op.fn \in PinSetFns \cup PinGetFns \cup PortGetFns =>
        /\ Len(bus) >= 1 =>
              /\ bus[1].kind = "write_read"
              /\ bus[1].bytes = <<TargetRegister(op)>>
              /\ bus[1].rdlen = 1
              /\ bus[1].outcome = "Ok" => Len(bus[1].read) = 1
        /\ Returned => Len(bus) >= 1
        /\ op.fn \in PinGetFns \cup PortGetFns =>
              /\ Len(bus) <= 1
              /\ \A k \in 1..Len(bus) : bus[k].kind # "write"
              /\ regs = regs0

\* get_pin_output_state(P10): one write_read of <<0x05>>, one byte back.
C21_Witness ==
    /\ Succeeded
    /\ op.fn = "get_pin_output_state" /\ op.pin = 8
    /\ Len(bus) = 1
    /\ bus[1].kind = "write_read" /\ bus[1].bytes = <<5>> /\ bus[1].rdlen = 1
    /\ bus[1].read = <<regs[OutputPort1]>>
    /\ regs = regs0

(***************************************************************************)
(* C22.  set_pin_output(p, v) followed by get_pin_output_state(p) returns  *)
(* v, High being stored as bit 1 of the Output register; and               *)
(* set_pin_interrupt_mask(p, m) followed by get_pin_interrupt_mask(p)      *)
(* returns m, masked being stored as bit 1 of register 0x10 + p / 8;       *)
(* whatever the register held before.                                      *)
(***************************************************************************)
C22_OutputAndMaskRoundTrip ==
    /\ ( Succeeded /\ op.fn = "set_pin_output" ) =>
          BitOf(regs[4 + (op.pin \div 8)], op.pin % 8) = (IF op.arg = "High" THEN 1 ELSE 0)
    /\ ( Succeeded /\ op.fn = "set_pin_interrupt_mask" ) =>
          BitOf(regs[16 + (op.pin \div 8)], op.pin % 8) = (IF op.arg THEN 1 ELSE 0)
    /\ ( /\ Succeeded
         /\ op.fn = "get_pin_output_state"
         /\ prev.op.fn = "set_pin_output"
         /\ prev.op.pin = op.pin
         /\ prev.result.tag = "Ok" )
       => result.val = prev.op.arg
    /\ ( /\ Succeeded
         /\ op.fn = "get_pin_interrupt_mask"
         /\ prev.op.fn = "set_pin_interrupt_mask"
         /\ prev.op.pin = op.pin
         /\ prev.result.tag = "Ok" )
       => result.val = prev.op.arg

\* P26 was unmasked (bit 6 of register 0x12 read as 0), is masked and is read
\* back as masked.
C22_Witness ==
    /\ Succeeded
    /\ nops = 2
    /\ op.fn = "get_pin_interrupt_mask" /\ op.pin = 22
    /\ prev.op.fn = "set_pin_interrupt_mask" /\ prev.op.pin = 22
    /\ prev.op.arg = TRUE /\ prev.result.tag = "Ok"
    /\ BitOf(prev.bus[1].read[1], 6) = 0
    /\ bus[1].bytes = <<18>>
    /\ result.val = TRUE

(***************************************************************************)
(* C23.  new(bus, address) issues no transaction and returns success,      *)
(* whatever the address; the first transaction on the bus is the first one *)
(* of the first operation called on the driver.                            *)
(***************************************************************************)
C23_NewIssuesNothing ==
    /\ nops = 0 =>
          /\ bus = <<>>
          /\ result = Ok(Unit)
          /\ pc = "idle"
          /\ regs = regs0
    /\ Len(bus) >= 1 =>
          /\ nops = 1
          /\ Transaction(bus[1]) = ExpectedTransaction(op, 1, bus)
          /\ bus[1].address = address

\* A driver built on address 0xC8, which no 7-bit address is: nothing on the
\* bus, success.
C23_Witness ==
    /\ nops = 0
    /\ address = 200
    /\ bus = <<>>
    /\ result = Ok(Unit)
    /\ pc = "idle"

(***************************************************************************)
(* C24.  The register an operation on kind K and port q addresses is       *)
(* base(K) + q, with base 0x00 for Input, 0x04 for Output, 0x08 for        *)
(* Polarity Inversion, 0x0C for Configuration and 0x10 for Interrupt Mask  *)
(* (q = pin / 8 for a pin operation, 0 for set_initial_output_state); so   *)
(* the low 7 bits of every command byte are one of the 15 defined          *)
(* addresses, never 0x03, 0x07, 0x0B, 0x0F or one above 0x12.              *)
(***************************************************************************)
DefinedAddresses == {0, 1, 2, 4, 5, 6, 8, 9, 10, 12, 13, 14, 16, 17, 18}

C24_RegisterMap ==
    \A k \in 1..Len(bus) :
        LET a == bus[k].bytes[1] % 128
        IN  /\ a = IF op.fn = "set_initial_output_state" THEN 4 ELSE TargetRegister(op)
            /\ a \in DefinedAddresses
            /\ a \notin {3, 7, 11, 15}
            /\ a <= 18

\* get_pin_interrupt_mask(P27) addresses the last register of the map, 0x12.
C24_Witness ==
    /\ Succeeded
    /\ op.fn = "get_pin_interrupt_mask" /\ op.pin = 23
    /\ bus[1].bytes = <<18>>
    /\ register = InterruptMaskPort2

(***************************************************************************)
(* C25.  Bit 7 of the command byte of a transaction is set if and only if  *)
(* the transaction comes from a batch operation (set_ports_*_ai,           *)
(* get_ports_*_ai, set_initial_output_state); every pin operation and      *)
(* every single-port operation sends it clear.                             *)
(***************************************************************************)
BatchFns == AiSetFns \cup AiGetFns \cup {"set_initial_output_state"}

C25_AutoIncrementBit ==
    \A k \in 1..Len(bus) :
        /\ BitOf(bus[k].bytes[1], 7) = 1 <=> op.fn \in BatchFns
        /\ op.fn \in PinSetFns \cup PinGetFns \cup PortSetFns \cup PortGetFns =>
              bus[k].bytes[1] < 128

\* A batch read of one register still carries the flag: 0x92.
C25_Witness ==
    /\ Succeeded
    /\ op.fn = "get_ports_interrupt_mask_ai" /\ op.port = 2 /\ op.arg = 1
    /\ bus[1].bytes = <<146>>
    /\ BitOf(bus[1].bytes[1], 7) = 1

(***************************************************************************)
(* C26.  Every transaction of a driver instance goes to the address given  *)
(* to new(): the transactions of the operation in progress and those of    *)
(* the operation before it carry the stored address, which is the same     *)
(* before and after every operation, failed ones included.                 *)
(***************************************************************************)
C26_AddressFixed ==
    /\ address = caller.address
    /\ \A k \in 1..Len(bus) : bus[k].address = address
    /\ \A k \in 1..Len(prev.bus) : prev.bus[k].address = address

\* On a driver built on 0x74, set_port_direction is not acknowledged and is
\* called again: both writes go to 0x74.
C26_Witness ==
    /\ Returned
    /\ nops = 2
    /\ address = 116
    /\ op.fn = "set_port_direction"
    /\ prev.op = op
    /\ prev.result = Err(I2c("Nack"))
    /\ prev.bus[1].address = 116
    /\ bus[1].address = 116

\* Register file start with bit i of register r made v.
OneBitSet(start, r, i, v) == [start EXCEPT ![r] = WithBit(start[r], i, v)]

\* The operation called is on the port the port getter before it has read,
\* and that getter succeeded.
OnPortJustRead ==
    /\ Succeeded
    /\ nops >= 2
    /\ prev.op.fn \in PortGetFns
    /\ prev.result.tag = "Ok"
    /\ GroupBase(op.fn) = GroupBase(prev.op.fn)
    /\ PortOf(op) = prev.op.port

(***************************************************************************)
(* C27.  The pin view and the port view agree.  On the device state in     *)
(* which get_port_K(p / 8) returned a byte, get_pin_K(p) returns the        *)
(* decoding of bit p % 8 of that byte.  set_pin_K(p, v) leaves the device   *)
(* in the state it was called in with bit p % 8 of the register of K and    *)
(* port p / 8 made v, and so does get_port_K(p / 8) followed by             *)
(* set_port_K(p / 8, the byte returned with bit p % 8 made v).              *)
(***************************************************************************)
C27_PinAndPortViewsAgree ==
    /\ ( OnPortJustRead /\ op.fn \in PinGetFns ) =>
          /\ prev.result.val = regs0[TargetRegister(op)]
          /\ result.val = DecodedBit(op.fn, BitOf(prev.result.val, op.pin % 8))
          /\ regs = regs0
    /\ ( Succeeded /\ op.fn \in PinSetFns ) =>
          regs = OneBitSet(regs0, TargetRegister(op), op.pin % 8, RequestedBit(op))
    /\ ( OnPortJustRead /\ op.fn \in PortSetFns ) =>
          /\ prev.result.val = regs0[TargetRegister(op)]
          /\ \A i \in 0..7, v \in 0..1 :
                op.arg = WithBit(prev.result.val, i, v) =>
                    regs = OneBitSet(regs0, TargetRegister(op), i, v)

\* Polarity Inversion port 1 was read with bit 3 clear and written back with
\* bit 3 set: the device holds what set_pin_polarity_inversion(P13, true)
\* leaves.
C27_Witness ==
    /\ OnPortJustRead
    /\ prev.op.fn = "get_port_polarity_inversion" /\ prev.op.port = 1
    /\ op.fn = "set_port_polarity_inversion"
    /\ BitOf(prev.result.val, 3) = 0
    /\ op.arg = prev.result.val + 8
    /\ regs = OneBitSet(regs0, 9, 3, 1)
    /\ regs # regs0

\* Register file start after pin setter a, then pin setter b, have each
\* changed its bit.
AfterBoth(start, a, b) ==
    OneBitSet(OneBitSet(start, TargetRegister(a), a.pin % 8, RequestedBit(a)),
              TargetRegister(b), b.pin % 8, RequestedBit(b))

(***************************************************************************)
(* C28.  Two set_pin_K operations on distinct pins, called one after the   *)
(* other with no transport failure and no other bus master, commute: the   *)
(* register file they leave is the one the caller started from with the    *)
(* two target bits made as requested, which is the same for either order   *)
(* of the two calls; the pins may be on one port or two, the kinds equal or *)
(* not.                                                                    *)
(***************************************************************************)
C28_SetPinsCommute ==
    ( /\ Succeeded
      /\ nops = 2
      /\ op.fn \in PinSetFns
      /\ prev.op.fn \in PinSetFns
      /\ prev.result.tag = "Ok"
      /\ op.pin # prev.op.pin )
    => /\ regs = AfterBoth(caller.start, prev.op, op)
       /\ regs = AfterBoth(caller.start, op, prev.op)
       /\ BitOf(regs[TargetRegister(op)], op.pin % 8) = RequestedBit(op)
       /\ BitOf(regs[TargetRegister(prev.op)], prev.op.pin % 8) = RequestedBit(prev.op)

\* set_pin_output(P05, High) then set_pin_output(P03, High) on Output port 0,
\* both bits clear before: the second call has read the first one's write and
\* the register holds both bits.
C28_Witness ==
    /\ Succeeded
    /\ nops = 2
    /\ prev.op.fn = "set_pin_output" /\ prev.op.pin = 5 /\ prev.op.arg = "High"
    /\ prev.result.tag = "Ok"
    /\ op.fn = "set_pin_output" /\ op.pin = 3 /\ op.arg = "High"
    /\ BitOf(caller.start[OutputPort0], 5) = 0
    /\ BitOf(caller.start[OutputPort0], 3) = 0
    /\ bus[1].read = <<caller.start[OutputPort0] + 32>>
    /\ regs[OutputPort0] = caller.start[OutputPort0] + 40

\* Register file start with the registers base + s, base + s + 1, ... made
\* the bytes of values.
BatchEffect(start, base, s, values) ==
    [a \in Register |->
        IF a >= base + s /\ a < base + s + Len(values)
        THEN values[(a - (base + s)) + 1]
        ELSE start[a]]

\* The bytes the caller of script "ports" has written so far, port by port.
Written == [i \in 1..nops |-> SliceByte(1, i)]

(***************************************************************************)
(* C29.  A batch operation that stays inside its group is equivalent to    *)
(* the single-port operations on the same ports.  For start port s and      *)
(* n <= 3 - s values, set_ports_K_ai(s, values) leaves the device in the    *)
(* state it was called in with the registers of K at ports s .. s + n - 1   *)
(* made values[0 .. n - 1], and so does the sequence set_port_K(s, v0),     *)
(* set_port_K(s + 1, v1), ...; get_ports_K_ai(s, buffer) puts into          *)
(* buffer[i] the register of K at port s + i as it was at the call, which   *)
(* is what get_port_K(s + i) returns.  With one value the batch write       *)
(* changes the one register the single-port write changes.                  *)
(***************************************************************************)
C29_BatchIsSequenceOfSingles ==
    /\ ( Succeeded /\ op.fn \in AiSetFns /\ Len(op.values) <= 3 - op.port ) =>
          /\ regs = BatchEffect(regs0, GroupBase(op.fn), op.port, op.values)
          /\ Len(op.values) = 1 =>
                regs = [regs0 EXCEPT ![TargetRegister(op)] = op.values[1]]
    /\ ( Succeeded /\ op.fn \in PortSetFns ) =>
          regs = [regs0 EXCEPT ![TargetRegister(op)] = op.arg]
    /\ ( /\ caller.script = "ports"
         /\ Succeeded
         /\ op.fn \in PortSetFns
         /\ op.arg = SliceByte(1, nops) ) =>
          /\ nops <= 3 - (op.port - (nops - 1))
          /\ regs = BatchEffect(caller.start, GroupBase(op.fn), op.port - (nops - 1), Written)
    /\ ( Succeeded /\ op.fn \in AiGetFns /\ op.arg <= 3 - op.port ) =>
          /\ regs = regs0
          /\ Len(buffer) = op.arg
          /\ \A i \in 1..Len(buffer) : buffer[i] = regs0[TargetRegister(op) + (i - 1)]
    /\ ( Succeeded /\ op.fn \in PortGetFns ) =>
          /\ regs = regs0
          /\ result.val = regs0[TargetRegister(op)]

\* set_port_polarity_inversion(Port0, 0xAA), (Port1, 0x55), (Port2, 0x00) one
\* by one: the three Polarity Inversion registers hold what
\* set_ports_polarity_inversion_ai(Port0, <<0xAA, 0x55, 0x00>>) leaves.
C29_Witness ==
    /\ caller.script = "ports"
    /\ Succeeded
    /\ nops = 3
    /\ op.fn = "set_port_polarity_inversion" /\ op.port = 2 /\ op.arg = 0
    /\ prev.op.fn = "set_port_polarity_inversion" /\ prev.op.port = 1 /\ prev.op.arg = 85
    /\ regs = BatchEffect(caller.start, 8, 0, <<170, 85, 0>>)
    /\ regs[8] = 170 /\ regs[9] = 85 /\ regs[10] = 0
    /\ caller.start[8] # 170 /\ caller.start[9] # 85 /\ caller.start[10] # 0

(***************************************************************************)
(* C30.  A batch write with an empty slice is neither refused nor skipped: *)
(* set_ports_K_ai(s, []) issues exactly one write whose frame is the       *)
(* command byte (register of K at s) | 0x80 alone, changes no device       *)
(* register and returns what the transport returned.                       *)
(***************************************************************************)
C30_EmptyBatchWrite ==
    ( Returned /\ op.fn \in AiSetFns /\ op.values = <<>> ) =>
        /\ Len(bus) = 1
        /\ bus[1].kind = "write"
        /\ bus[1].address = address
        /\ bus[1].bytes = <<TargetRegister(op) + 128>>
        /\ regs = regs0
        /\ result = Verdict(bus[1].outcome)

\* set_ports_interrupt_mask_ai(Port1, []) puts the lone byte 0x91 on the bus.
C30_Witness ==
    /\ Succeeded
    /\ op.fn = "set_ports_interrupt_mask_ai" /\ op.port = 1
    /\ op.values = <<>>
    /\ Len(bus) = 1
    /\ bus[1].bytes = <<145>>
    /\ regs = regs0

====
